---- MODULE Spec2Model ----
(***************************************************************************)
(* FreeMDU GUI: the device-communication worker (gui/src/worker.rs) and    *)
(* the consumer that drives it (gui/src/app.rs).                           *)
(*                                                                         *)
(* One WorkerHandle owns two std::sync::mpsc channels and a detached       *)
(* thread running run_worker.  The consumer (FreeMduApp) polls the handle  *)
(* once per UI frame (update), schedules property queries and forwards     *)
(* user intents as commands.                                               *)
(*                                                                         *)
(* Time is in milliseconds.  Instants are natural numbers; Option<Instant> *)
(* uses NoInstant for None.  Handles are numbered 1..MaxWorkers in the     *)
(* order WorkerHandle::new creates them; NoWorker stands for               *)
(* Option<WorkerHandle>::None.                                             *)
(***************************************************************************)
EXTENDS Integers, Sequences, FiniteSets, TLC

----------------------------------------------------------------------------
(* Bounds of the model *)

MaxWorkers == 2      \* number of WorkerHandle::new calls explored
MaxTime    == 750    \* the clock stops advancing here
TickMs     == 250    \* granularity of the clock
MaxSynth   == 3      \* made-up Disconnected events one drain loop may collect
MaxExecute == 1      \* "Execute" clicks explored
MaxSend    == 3      \* commands ClientSpec sends through one handle
SchedStart == 40000  \* the instant SchedInit looks at a running session
SchedSpan  == 500    \* how long SchedSpec lets the clock run from there

Workers == 1..MaxWorkers
NoWorker == 0
NoInstant == -1

----------------------------------------------------------------------------
(* Program constants *)

HandshakeTimeoutMs == 5000
QueryTimeoutMs     == 1000
TriggerTimeoutMs   == 2000
ThrottleMs         == 500
IoIntervalMs        == 500
OperationIntervalMs == 1000
FailureIntervalMs   == 5000
GeneralIntervalMs   == 30000

kindsOperationFirst ==
  << [kind |-> "Operation", interval |-> OperationIntervalMs],
     [kind |-> "Io",        interval |-> IoIntervalMs],
     [kind |-> "Failure",   interval |-> FailureIntervalMs],
     [kind |-> "General",   interval |-> GeneralIntervalMs] >>

\* PropertyKind, in the order auto_refresh_properties walks it
kinds ==
  << [kind |-> "Io",        interval |-> IoIntervalMs],
     [kind |-> "Operation", interval |-> OperationIntervalMs],
     [kind |-> "Failure",   interval |-> FailureIntervalMs],
     [kind |-> "General",   interval |-> GeneralIntervalMs] >>

PropertyKind == {"General", "Failure", "Operation", "Io"}

----------------------------------------------------------------------------
(* The device behind freemdu::device (external; a fixed simulated device) *)

\* dev.properties(): iteration order is the order of this sequence
DevProperties ==
  << [name |-> "io1",  kind |-> "Io"],
     [name |-> "op1",  kind |-> "Operation"],
     [name |-> "io2",  kind |-> "Io"],
     [name |-> "gen1", kind |-> "General"] >>

\* dev.actions()
DevActions == << [id |-> "reset", name |-> "Reset"] >>

\* dev.software_id(), dev.kind()
DevSoftwareId == "id42"
DevKind == "Foo"

\* DeviceInfo built at worker.rs:151-155
DeviceInfoOf ==
  [software_id |-> DevSoftwareId, kind |-> DevKind, actions |-> DevActions]

\* outcomes of one device call under tokio::time::timeout
Outcomes == {"ok", "err", "timeout"}

----------------------------------------------------------------------------
VARIABLES
  \* ---- per handle / worker thread ----
  wpc,          \* position of run_worker
  cmdq,         \* mpsc channel UI -> worker (cmd_tx / cmd_rx)
  respq,        \* mpsc channel worker -> UI (resp_tx / resp_rx)
  handleAlive,  \* the WorkerHandle (tx, rx) has been created and not dropped
  portHeld,     \* run_worker holds the opened serial port
  wcmd,         \* the command run_worker is executing
  widx,         \* index into properties of the query in progress
  wdata,        \* `data` collected by the QueryProperties arm
  inflight,     \* device calls begun and not yet completed or cancelled
  \* ---- FreeMduApp ----
  connection_state,
  worker,
  properties,
  auto_refresh,
  last_refresh,
  status_message,
  cpc,          \* position of update()
  responses,    \* `responses` collected by process_worker_responses
  now,          \* the monotonic clock (Instant::now())
  \* ---- history (not program state) ----
  hist,         \* per handle: counters and last events, see NoHist
  lastEval,     \* this frame's run of the scheduler: whether it passed the
                \* throttle, and the kind it asked for
  lastQueryAt,  \* when the scheduler last sent a QueryProperties
  executes      \* number of Execute clicks so far

wvars == <<wpc, cmdq, respq, handleAlive, portHeld, wcmd, widx, wdata, inflight>>
avars == <<connection_state, worker, properties, auto_refresh, last_refresh,
           status_message, cpc, responses>>
hvars == <<hist, lastEval, lastQueryAt, executes>>
vars  == <<wvars, avars, now, hvars>>

----------------------------------------------------------------------------
(* Messages.  A channel carries envelopes: the message and a history tag   *)
(* the program never reads (a command's number in send order; for a        *)
(* response, the number of the command that caused it, 0 for none).        *)

QueryPropertiesCmd(k)   == [type |-> "QueryProperties", kind |-> k]
TriggerActionCmd(id, p) == [type |-> "TriggerAction", id |-> id, param |-> p]
DisconnectCmd           == [type |-> "Disconnect"]
NoCmd                   == [type |-> "None"]

ConnectedResp(info)       == [type |-> "Connected", info |-> info]
PropertiesResp(k, d)      == [type |-> "Properties", kind |-> k, data |-> d]
ActionResultResp(n, s, m) == [type |-> "ActionResult", name |-> n, success |-> s, message |-> m]
ErrorResp(m)              == [type |-> "Error", msg |-> m]
DisconnectedResp          == [type |-> "Disconnected"]
NoResp                    == [type |-> "None"]

Envelope(m, n) == [msg |-> m, tag |-> n]

\* history of one connection
NoHist ==
  [ sent      |-> 0,        \* commands passed to tx.send
    taken     |-> 0,        \* commands run_worker received
    emits     |-> 0,        \* responses passed to resp_tx.send
    connected |-> 0,        \* Connected responses among them
    errors    |-> 0,        \* Error responses among them
    lastResp  |-> NoResp,   \* the last response passed to resp_tx.send
    cmdEmits  |-> 0,        \* responses sent for the command being executed
    attempts  |-> <<>>,     \* outcomes of the device calls of that command
    lastObs   |-> -1,       \* tag of the last response try_recv took from the channel
    synth     |-> 0,        \* Disconnected events try_recv made up
    obsDisc   |-> FALSE,    \* try_recv has returned a Disconnected
    firstQuery |-> "None",  \* kind of the first QueryProperties sent
    lost      |-> 0 ]       \* commands passed to tx.send after the thread ended

\* history of a connection whose handle is dropped and whose thread has
\* ended: only obsDisc is kept
Forget(h) == [NoHist EXCEPT !.obsDisc = h.obsDisc]

----------------------------------------------------------------------------
(* std::sync::mpsc *)

ChanPushFront(q, m) == <<m>> \o q

\* Sender::send on a channel whose receiver exists: the message is queued last
ChanPush(q, m) == Append(q, m)

\* the worker thread has ended: cmd_rx and resp_tx are dropped
Terminated(w) == wpc[w] = "terminal"

TxSendAlways(w, cmd) == ChanPush(cmdq[w], Envelope(cmd, hist[w].sent + 1))

\* self.tx.send(cmd), result ignored: queued unless the receiver is gone
TxSend(w, cmd) ==
  IF Terminated(w) THEN cmdq[w]
  ELSE ChanPush(cmdq[w], Envelope(cmd, hist[w].sent + 1))

\* resp_tx.send(resp), result ignored: queued unless the handle was dropped
RespSend(w, resp, n) ==
  IF handleAlive[w] THEN ChanPush(respq[w], Envelope(resp, n)) ELSE respq[w]

----------------------------------------------------------------------------
(* run_worker *)

\* properties.iter().filter(|p| p.kind == kind): the next matching index
\* after i, or 0 when the iterator is exhausted
NextProp(k, i) ==
  LET later == {j \in (i+1)..Len(DevProperties) : DevProperties[j].kind = k}
  IN  IF later = {} THEN 0 ELSE CHOOSE j \in later : \A m \in later : j <= m

FindActionAny(id) == IF DevActions = <<>> THEN 0 ELSE 1

\* actions.iter().find(|a| a.id == action_id): index, or 0 for None
FindAction(id) ==
  LET hits == {j \in 1..Len(DevActions) : DevActions[j].id = id}
  IN  IF hits = {} THEN 0 ELSE CHOOSE j \in hits : \A m \in hits : j <= m

\* PropertyData pushed for a property (value and unit are the device's)
PropertyDataOf(p) == [name |-> p.name]

CollectAll(data, p, o) == Append(data, PropertyDataOf(p))

\* the match on the timeout-wrapped query: only Ok(Ok(value)) pushes
Collect(data, p, o) == IF o = "ok" THEN Append(data, PropertyDataOf(p)) ELSE data

ActionOutcomeNoTimeout(a, o) ==
  IF o = "ok" THEN ActionResultResp(a.name, TRUE, "Success")
  ELSE ActionResultResp(a.name, FALSE, "DeviceError")

ActionOutcomeFatal(a, o) ==
  IF o = "ok" THEN ActionResultResp(a.name, TRUE, "Success")
  ELSE ErrorResp("Action failed")

\* the match on the timeout-wrapped trigger_action
ActionOutcome(a, o) ==
  CASE o = "ok"      -> ActionResultResp(a.name, TRUE, "Success")
    [] o = "err"     -> ActionResultResp(a.name, FALSE, "DeviceError")
    [] o = "timeout" -> ActionResultResp(a.name, FALSE, "Timeout")

ReceivingAnytime(w) == wpc[w] \in {"serving", "query", "trigger"}

\* run_worker is at cmd_rx.recv_timeout (top of the command loop)
Receiving(w) == wpc[w] = "serving"

\* history after resp_tx.send(resp)
Emitted(h, resp) ==
  [h EXCEPT !.emits = @ + 1,
            !.connected = IF resp.type = "Connected" THEN @ + 1 ELSE @,
            !.errors = IF resp.type = "Error" THEN @ + 1 ELSE @,
            !.lastResp = resp,
            !.cmdEmits = @ + 1]

\* history after cmd_rx.recv_timeout returned a command
Took(h) == [h EXCEPT !.taken = @ + 1, !.cmdEmits = 0, !.attempts = <<>>]

\* history after a device call ended with outcome o (prop: index into
\* properties, 0 for an action)
Tried(h, i, o) == [h EXCEPT !.attempts = Append(@, [prop |-> i, out |-> o])]

ConnectFailureServes(w, from, reason) ==
  /\ wpc[w] = from
  /\ respq' = [respq EXCEPT ![w] = RespSend(w, ErrorResp(reason), 0)]
  /\ hist' = [hist EXCEPT ![w] = Emitted(@, ErrorResp(reason))]
  /\ wpc' = [wpc EXCEPT ![w] = "serving"]
  /\ UNCHANGED <<cmdq, handleAlive, portHeld, wcmd, widx, wdata, inflight>>
  /\ UNCHANGED <<avars, now, lastEval, lastQueryAt, executes>>

\* one of the four `Error(..); return` exits before the command loop
ConnectFailure(w, from, reason) ==
  /\ wpc[w] = from
  /\ respq' = [respq EXCEPT ![w] = RespSend(w, ErrorResp(reason), 0)]
  /\ hist' = [hist EXCEPT ![w] = Emitted(@, ErrorResp(reason))]
  /\ wpc' = [wpc EXCEPT ![w] = "exiting"]
  /\ UNCHANGED <<cmdq, handleAlive, portHeld, wcmd, widx, wdata, inflight>>
  /\ UNCHANGED <<avars, now, lastEval, lastQueryAt, executes>>

\* tokio runtime cannot be built
WRuntimeFail(w) == ConnectFailure(w, "start", "Failed to create runtime")

\* freemdu::serial::open fails
WOpenFail(w) == ConnectFailure(w, "start", "Failed to open port")

\* freemdu::serial::open succeeds
WOpenOk(w) ==
  /\ wpc[w] = "start"
  /\ wpc' = [wpc EXCEPT ![w] = "handshake"]
  /\ portHeld' = [portHeld EXCEPT ![w] = TRUE]
  /\ UNCHANGED <<cmdq, respq, handleAlive, wcmd, widx, wdata, inflight>>
  /\ UNCHANGED <<avars, now, hvars>>

\* device::connect returns an error within the 5 s timeout
WConnectErr(w) == ConnectFailure(w, "handshake", "Failed to connect")

\* device::connect does not finish within the 5 s timeout
WConnectTimeout(w) == ConnectFailure(w, "handshake", "Connection timeout")

WConnectSilent(w) ==
  /\ wpc[w] = "handshake"
  /\ wpc' = [wpc EXCEPT ![w] = "serving"]
  /\ UNCHANGED <<cmdq, respq, handleAlive, portHeld, wcmd, widx, wdata, inflight>>
  /\ UNCHANGED <<avars, now, hvars>>

\* device::connect succeeds: Connected(info), enter the command loop
WConnectOk(w) ==
  /\ wpc[w] = "handshake"
  /\ respq' = [respq EXCEPT ![w] = RespSend(w, ConnectedResp(DeviceInfoOf), 0)]
  /\ hist' = [hist EXCEPT ![w] = Emitted(@, ConnectedResp(DeviceInfoOf))]
  /\ wpc' = [wpc EXCEPT ![w] = "serving"]
  /\ UNCHANGED <<cmdq, handleAlive, portHeld, wcmd, widx, wdata, inflight>>
  /\ UNCHANGED <<avars, now, lastEval, lastQueryAt, executes>>

\* Ok(QueryProperties(kind)): start the first matching query, or answer at
\* once when no property has that kind
WRecvQuery(w) ==
  /\ Receiving(w)
  /\ cmdq[w] # <<>>
  /\ Head(cmdq[w]).msg.type = "QueryProperties"
  /\ LET c     == Head(cmdq[w]).msg
         first == NextProp(c.kind, 0)
     IN  /\ cmdq' = [cmdq EXCEPT ![w] = Tail(@)]
         /\ wcmd' = [wcmd EXCEPT ![w] = c]
         /\ wdata' = [wdata EXCEPT ![w] = <<>>]
         /\ IF first = 0
            THEN /\ respq' = [respq EXCEPT ![w] =
                                RespSend(w, PropertiesResp(c.kind, <<>>), hist[w].taken + 1)]
                 /\ hist' = [hist EXCEPT ![w] =
                               Emitted(Took(@), PropertiesResp(c.kind, <<>>))]
                 /\ UNCHANGED <<wpc, widx, inflight>>
            ELSE /\ wpc' = [wpc EXCEPT ![w] = "query"]
                 /\ widx' = [widx EXCEPT ![w] = first]
                 /\ inflight' = [inflight EXCEPT ![w] = @ + 1]
                 /\ hist' = [hist EXCEPT ![w] = Took(@)]
                 /\ UNCHANGED respq
  /\ UNCHANGED <<handleAlive, portHeld>>
  /\ UNCHANGED <<avars, now, lastEval, lastQueryAt, executes>>

\* one dev.query_property(prop) completes, fails or times out; then the
\* next matching property is queried, or Properties(kind, data) is sent
WQueryDone(w, o) ==
  /\ wpc[w] = "query"
  /\ LET p     == DevProperties[widx[w]]
         data2 == Collect(wdata[w], p, o)
         nxt   == NextProp(wcmd[w].kind, widx[w])
     IN  IF nxt = 0
         THEN /\ respq' = [respq EXCEPT ![w] =
                             RespSend(w, PropertiesResp(wcmd[w].kind, data2), hist[w].taken)]
              /\ hist' = [hist EXCEPT ![w] =
                            Emitted(Tried(@, widx[w], o), PropertiesResp(wcmd[w].kind, data2))]
              /\ wpc' = [wpc EXCEPT ![w] = "serving"]
              /\ widx' = [widx EXCEPT ![w] = 0]
              /\ wdata' = [wdata EXCEPT ![w] = <<>>]
              /\ inflight' = [inflight EXCEPT ![w] = @ - 1]
         ELSE /\ widx' = [widx EXCEPT ![w] = nxt]
              /\ wdata' = [wdata EXCEPT ![w] = data2]
              /\ hist' = [hist EXCEPT ![w] = Tried(@, widx[w], o)]
              /\ UNCHANGED <<respq, wpc, inflight>>
  /\ UNCHANGED <<cmdq, handleAlive, portHeld, wcmd>>
  /\ UNCHANGED <<avars, now, lastEval, lastQueryAt, executes>>

\* Ok(TriggerAction(action_id, param)): unknown ids are ignored
WRecvTrigger(w) ==
  /\ Receiving(w)
  /\ cmdq[w] # <<>>
  /\ Head(cmdq[w]).msg.type = "TriggerAction"
  /\ LET c == Head(cmdq[w]).msg
     IN  /\ cmdq' = [cmdq EXCEPT ![w] = Tail(@)]
         /\ wcmd' = [wcmd EXCEPT ![w] = c]
         /\ hist' = [hist EXCEPT ![w] = Took(@)]
         /\ IF FindAction(c.id) = 0
            THEN UNCHANGED <<wpc, inflight>>
            ELSE /\ wpc' = [wpc EXCEPT ![w] = "trigger"]
                 /\ inflight' = [inflight EXCEPT ![w] = @ + 1]
  /\ UNCHANGED <<respq, handleAlive, portHeld, widx, wdata>>
  /\ UNCHANGED <<avars, now, lastEval, lastQueryAt, executes>>

\* dev.trigger_action completes, fails or times out: one ActionResult
WTriggerDone(w, o) ==
  /\ wpc[w] = "trigger"
  /\ LET r == ActionOutcome(DevActions[FindAction(wcmd[w].id)], o)
     IN  /\ respq' = [respq EXCEPT ![w] = RespSend(w, r, hist[w].taken)]
         /\ hist' = [hist EXCEPT ![w] = Emitted(Tried(@, 0, o), r)]
  /\ wpc' = [wpc EXCEPT ![w] = "serving"]
  /\ inflight' = [inflight EXCEPT ![w] = @ - 1]
  /\ UNCHANGED <<cmdq, handleAlive, portHeld, wcmd, widx, wdata>>
  /\ UNCHANGED <<avars, now, lastEval, lastQueryAt, executes>>

WRecvDisconnectContinue(w) ==
  /\ Receiving(w)
  /\ cmdq[w] # <<>>
  /\ Head(cmdq[w]).msg.type = "Disconnect"
  /\ cmdq' = [cmdq EXCEPT ![w] = Tail(@)]
  /\ wcmd' = [wcmd EXCEPT ![w] = Head(cmdq[w]).msg]
  /\ respq' = [respq EXCEPT ![w] = RespSend(w, DisconnectedResp, hist[w].taken + 1)]
  /\ hist' = [hist EXCEPT ![w] = Emitted(Took(@), DisconnectedResp)]
  /\ UNCHANGED <<wpc, handleAlive, portHeld, widx, wdata, inflight>>
  /\ UNCHANGED <<avars, now, lastEval, lastQueryAt, executes>>

\* Ok(Disconnect): Disconnected, break.  Err(Disconnected) (every sender
\* dropped and nothing queued): break without a message.
WRecvDisconnect(w) ==
  /\ Receiving(w)
  /\ IF cmdq[w] # <<>>
     THEN /\ Head(cmdq[w]).msg.type = "Disconnect"
          /\ cmdq' = [cmdq EXCEPT ![w] = Tail(@)]
          /\ wcmd' = [wcmd EXCEPT ![w] = Head(cmdq[w]).msg]
          /\ respq' = [respq EXCEPT ![w] = RespSend(w, DisconnectedResp, hist[w].taken + 1)]
          /\ hist' = [hist EXCEPT ![w] = Emitted(Took(@), DisconnectedResp)]
     ELSE /\ ~handleAlive[w]
          /\ UNCHANGED <<cmdq, wcmd, respq, hist>>
  /\ wpc' = [wpc EXCEPT ![w] = "exiting"]
  /\ UNCHANGED <<handleAlive, portHeld, widx, wdata, inflight>>
  /\ UNCHANGED <<avars, now, lastEval, lastQueryAt, executes>>

WExitKeepsPort(w) ==
  /\ wpc[w] = "exiting"
  /\ wpc' = [wpc EXCEPT ![w] = "terminal"]
  /\ cmdq' = [cmdq EXCEPT ![w] = <<>>]
  /\ IF handleAlive[w]
     THEN UNCHANGED <<hist, wcmd>>
     ELSE /\ hist' = [hist EXCEPT ![w] = Forget(@)]
          /\ wcmd' = [wcmd EXCEPT ![w] = NoCmd]
  /\ UNCHANGED <<respq, handleAlive, portHeld, widx, wdata, inflight>>
  /\ UNCHANGED <<avars, now, lastEval, lastQueryAt, executes>>

\* block_on returns and the thread ends: port, cmd_rx and resp_tx are
\* dropped; commands still queued are discarded with cmd_rx.  The history
\* of a connection is forgotten once its handle is dropped and its thread
\* has ended.
WExit(w) ==
  /\ wpc[w] = "exiting"
  /\ wpc' = [wpc EXCEPT ![w] = "terminal"]
  /\ portHeld' = [portHeld EXCEPT ![w] = FALSE]
  /\ cmdq' = [cmdq EXCEPT ![w] = <<>>]
  /\ IF handleAlive[w]
     THEN UNCHANGED <<hist, wcmd>>
     ELSE /\ hist' = [hist EXCEPT ![w] = Forget(@)]
          /\ wcmd' = [wcmd EXCEPT ![w] = NoCmd]
  /\ UNCHANGED <<respq, handleAlive, widx, wdata, inflight>>
  /\ UNCHANGED <<avars, now, lastEval, lastQueryAt, executes>>

WorkerStep(w) ==
  \/ WRuntimeFail(w) \/ WOpenFail(w) \/ WOpenOk(w)
  \/ WConnectErr(w) \/ WConnectTimeout(w) \/ WConnectOk(w)
  \/ WRecvQuery(w) \/ WRecvTrigger(w) \/ WRecvDisconnect(w)
  \/ \E o \in Outcomes : WQueryDone(w, o) \/ WTriggerDone(w, o)
  \/ WExit(w)

----------------------------------------------------------------------------
(* WorkerHandle *)

\* WorkerHandle::try_recv: Ok(resp) => Some(resp); Empty => None;
\* Disconnected (resp_tx dropped and nothing buffered) => Some(Disconnected)
TryRecv(w) ==
  IF respq[w] # <<>> THEN Head(respq[w]).msg
  ELSE IF Terminated(w) THEN DisconnectedResp
  ELSE NoResp

\* history after tx.send(cmd)
Sent(h, cmd) ==
  [h EXCEPT !.sent = @ + 1,
            !.firstQuery = IF cmd.type = "QueryProperties" /\ @ = "None"
                           THEN cmd.kind ELSE @]

\* history after try_recv returned a response
Observed(w) ==
  IF respq[w] # <<>>
  THEN [hist[w] EXCEPT !.lastObs = Head(respq[w]).tag,
                       !.obsDisc = @ \/ Head(respq[w]).msg.type = "Disconnected"]
  ELSE [hist[w] EXCEPT !.synth = @ + 1, !.obsDisc = TRUE]

DropNoSend(w) == cmdq[w]

\* impl Drop for WorkerHandle: what drop() leaves in the command channel
DropSend(w) == TxSend(w, DisconnectCmd)

\* The handle fields after a consumer step that created handle `new`
\* (WorkerHandle::new, 0: none) and dropped handle `old` (0: none).
\* Dropping runs drop() and then releases tx and rx; messages still
\* buffered in resp_rx go with it.
HandleEffects(new, old) ==
  /\ wpc' = [w \in Workers |-> IF w = new THEN "start" ELSE wpc[w]]
  /\ handleAlive' = [w \in Workers |->
                       IF w = new THEN TRUE
                       ELSE IF w = old THEN FALSE ELSE handleAlive[w]]
  /\ cmdq' = [w \in Workers |-> IF w = old THEN DropSend(w) ELSE cmdq[w]]
  /\ respq' = [w \in Workers |-> IF w = old THEN <<>> ELSE respq[w]]
  /\ hist' = [w \in Workers |->
                IF w # old THEN hist[w]
                ELSE IF Terminated(w) THEN Forget(hist[w])
                ELSE Sent(hist[w], DisconnectCmd)]
  /\ wcmd' = [w \in Workers |-> IF w = old /\ Terminated(w) THEN NoCmd ELSE wcmd[w]]

\* WorkerHandle::send
HandleSend(w, cmd) ==
  /\ cmdq' = [cmdq EXCEPT ![w] = TxSend(w, cmd)]
  /\ hist' = [hist EXCEPT ![w] =
                [Sent(@, cmd) EXCEPT !.lost = IF Terminated(w) THEN @ + 1 ELSE @]]

----------------------------------------------------------------------------
(* FreeMduApp *)

\* serialport::available_ports() (external; one port is present)
available_ports == << "port1" >>

Disconnected == [state |-> "Disconnected"]
Connecting   == [state |-> "Connecting"]
Connected(i) == [state |-> "Connected", info |-> i]
ErrorLost(m) == [state |-> "Disconnected"]
Error(m)     == [state |-> "Error", msg |-> m]

\* set_status (the Instant of the message is not modelled)
Status(m, e) == [msg |-> m, is_error |-> e]
NoStatus     == [msg |-> "None", is_error |-> FALSE]

\* PropertyStorage::default() / clear()
EmptyStorage == [k \in PropertyKind |-> [data |-> <<>>, updated |-> NoInstant]]

ApplyResponseMerging(st, r, t) ==
  CASE r.type = "Connected" ->
         [st EXCEPT !.status = Status("Connected", FALSE),
                    !.cs = Connected(r.info)]
    [] r.type = "Properties" ->
         [st EXCEPT !.props[r.kind] = [data |-> @.data \o r.data, updated |-> t]]
    [] r.type = "ActionResult" ->
         [st EXCEPT !.status = IF r.success
                               THEN Status("Action executed", FALSE)
                               ELSE Status("Action failed", TRUE)]
    [] r.type = "Error" ->
         [st EXCEPT !.cs = Error(r.msg), !.status = Status("Error", TRUE)]
    [] r.type = "Disconnected" ->
         [st EXCEPT !.cs = Disconnected, !.wk = NoWorker,
                    !.status = Status("Device disconnected", TRUE)]

\* one iteration of `for response in responses` in process_worker_responses
ApplyResponse(st, r, t) ==
  CASE r.type = "Connected" ->
         [st EXCEPT !.status = Status("Connected", FALSE),
                    !.cs = Connected(r.info)]
    [] r.type = "Properties" ->
         [st EXCEPT !.props[r.kind] = [data |-> r.data, updated |-> t]]
    [] r.type = "ActionResult" ->
         [st EXCEPT !.status = IF r.success
                               THEN Status("Action executed", FALSE)
                               ELSE Status("Action failed", TRUE)]
    [] r.type = "Error" ->
         [st EXCEPT !.cs = Error(r.msg), !.status = Status("Error", TRUE)]
    [] r.type = "Disconnected" ->
         [st EXCEPT !.cs = Disconnected, !.wk = NoWorker,
                    !.status = Status("Device disconnected", TRUE)]

RECURSIVE ApplyAll(_, _, _)
ApplyAll(st, rs, t) ==
  IF rs = <<>> THEN st ELSE ApplyAll(ApplyResponse(st, Head(rs), t), Tail(rs), t)

\* process_worker_responses, one turn of `while let Some(response) =
\* worker.try_recv()` that gets a response: push it.  Once the thread has
\* ended try_recv answers Some(Disconnected) on every call; the model
\* follows MaxSynth turns of that loop, and the state it then rests in
\* (cpc = "process", no step of update() enabled) is the loop going on.
DrainSome ==
  /\ cpc = "process"
  /\ worker # NoWorker
  /\ TryRecv(worker) # NoResp
  /\ respq[worker] = <<>> => hist[worker].synth < MaxSynth
  /\ responses' = Append(responses, TryRecv(worker))
  /\ respq' = [respq EXCEPT ![worker] = IF @ # <<>> THEN Tail(@) ELSE @]
  /\ hist' = [hist EXCEPT ![worker] = Observed(worker)]
  /\ UNCHANGED <<wpc, cmdq, handleAlive, portHeld, wcmd, widx, wdata, inflight>>
  /\ UNCHANGED <<connection_state, worker, properties, auto_refresh,
                 last_refresh, status_message, cpc>>
  /\ UNCHANGED <<now, lastEval, lastQueryAt, executes>>

ShouldUpdateNeedsTime(props, i, t) ==
  LET last_update == props[kinds[i].kind].updated
  IN  last_update # NoInstant /\ t - last_update >= kinds[i].interval

\* should_update of auto_refresh_properties for entry i of kinds
ShouldUpdate(props, i, t) ==
  LET last_update == props[kinds[i].kind].updated
  IN  last_update = NoInstant \/ t - last_update >= kinds[i].interval

LastDue(props, t) ==
  LET due == {i \in 1..Len(kinds) : ShouldUpdate(props, i, t)}
  IN  IF due = {} THEN 0 ELSE CHOOSE i \in due : \A j \in due : i >= j

\* the entry of kinds the for loop breaks at, 0 if it runs to the end
FirstDue(props, t) ==
  LET due == {i \in 1..Len(kinds) : ShouldUpdate(props, i, t)}
  IN  IF due = {} THEN 0 ELSE CHOOSE i \in due : \A j \in due : i <= j

ThrottledNoWindow(cs, t) ==
  \/ ~auto_refresh
  \/ cs.state # "Connected"

ThrottledAnyState(cs, t) ==
  \/ ~auto_refresh
  \/ t - last_refresh < ThrottleMs

\* the three early returns of auto_refresh_properties
Throttled(cs, t) ==
  \/ ~auto_refresh
  \/ cs.state # "Connected"
  \/ t - last_refresh < ThrottleMs

\* history: the scheduler has not run in this frame, or was throttled
NoEval == [ran |-> FALSE, kind |-> "None"]

\* update(), from the end of the drain loop to the widgets:
\* process_worker_responses finds no handle (return) or gets None from
\* try_recv and applies the collected responses in order; then
\* auto_refresh_properties runs (request_property_update inlined)
ProcessAndRefresh ==
  /\ cpc = "process"
  /\ worker # NoWorker => TryRecv(worker) = NoResp
  /\ LET st0 == [cs |-> connection_state, wk |-> worker,
                 props |-> properties, status |-> status_message]
         st1 == ApplyAll(st0, responses, now)
         run == ~Throttled(st1.cs, now)
         due == FirstDue(st1.props, now)
     IN  /\ connection_state' = st1.cs
         /\ worker' = st1.wk
         /\ properties' = st1.props
         /\ status_message' = st1.status
         /\ last_refresh' = IF run THEN now ELSE last_refresh
         /\ IF st1.wk = NoWorker
            THEN /\ HandleEffects(0, worker)
                 /\ lastEval' = [ran |-> run, kind |-> "None"]
                 /\ UNCHANGED lastQueryAt
            ELSE IF run /\ due # 0
            THEN /\ HandleSend(st1.wk, QueryPropertiesCmd(kinds[due].kind))
                 /\ lastEval' = [ran |-> TRUE, kind |-> kinds[due].kind]
                 /\ lastQueryAt' = now
                 /\ UNCHANGED <<wpc, handleAlive, respq, wcmd>>
            ELSE /\ lastEval' = [ran |-> run, kind |-> "None"]
                 /\ UNCHANGED <<wpc, handleAlive, respq, wcmd, cmdq>>
                 /\ UNCHANGED <<hist, lastQueryAt>>
  /\ responses' = <<>>
  /\ cpc' = "ui"
  /\ UNCHANGED <<portHeld, widx, wdata, inflight>>
  /\ UNCHANGED <<auto_refresh, now, executes>>

----------------------------------------------------------------------------
(* The frame's widgets (render_connection_controls, render_actions).  One  *)
(* frame handles at most one click.                                        *)

\* is_connected of render_connection_controls
is_connected == connection_state.state \in {"Connected", "Connecting"}

\* the handle WorkerHandle::new would create next
Unborn == {w \in Workers : wpc[w] = "unborn"}
NextHandle == CHOOSE w \in Unborn : \A v \in Unborn : w <= v

\* update() returns; the next frame starts with process_worker_responses
EndFrame == cpc' = "process" /\ lastEval' = NoEval

\* no widget is clicked in this frame
UiIdle ==
  /\ cpc = "ui"
  /\ EndFrame
  /\ UNCHANGED <<wvars, connection_state, worker, properties, auto_refresh,
                 last_refresh, status_message, responses, now>>
  /\ UNCHANGED <<hist, lastQueryAt, executes>>

\* "Connect" (shown when not is_connected, enabled with a port): connect()
UiConnect ==
  /\ cpc = "ui"
  /\ ~is_connected
  /\ available_ports # <<>>
  /\ Unborn # {}
  /\ connection_state' = Connecting
  /\ worker' = NextHandle
  /\ HandleEffects(NextHandle, worker)
  /\ status_message' = Status("Connecting", FALSE)
  /\ EndFrame
  /\ UNCHANGED <<portHeld, widx, wdata, inflight>>
  /\ UNCHANGED <<properties, auto_refresh, last_refresh, responses>>
  /\ UNCHANGED <<now, lastQueryAt, executes>>

UiDisconnectKeepsHandle ==
  /\ cpc = "ui"
  /\ is_connected
  /\ HandleEffects(0, 0)
  /\ connection_state' = Disconnected
  /\ properties' = EmptyStorage
  /\ status_message' = Status("Disconnected", FALSE)
  /\ EndFrame
  /\ UNCHANGED <<worker, portHeld, widx, wdata, inflight>>
  /\ UNCHANGED <<auto_refresh, last_refresh, responses>>
  /\ UNCHANGED <<now, lastQueryAt, executes>>

\* "Disconnect" (shown when is_connected): disconnect()
UiDisconnect ==
  /\ cpc = "ui"
  /\ is_connected
  /\ worker' = NoWorker
  /\ HandleEffects(0, worker)
  /\ connection_state' = Disconnected
  /\ properties' = EmptyStorage
  /\ status_message' = Status("Disconnected", FALSE)
  /\ EndFrame
  /\ UNCHANGED <<portHeld, widx, wdata, inflight>>
  /\ UNCHANGED <<auto_refresh, last_refresh, responses>>
  /\ UNCHANGED <<now, lastQueryAt, executes>>

\* the "Auto-refresh" checkbox
UiToggleAutoRefresh ==
  /\ cpc = "ui"
  /\ auto_refresh' = ~auto_refresh
  /\ EndFrame
  /\ UNCHANGED <<wvars, connection_state, worker, properties,
                 last_refresh, status_message, responses, now>>
  /\ UNCHANGED <<hist, lastQueryAt, executes>>

\* "Refresh All" (shown when Connected): forget the four update times
UiRefreshAll ==
  /\ cpc = "ui"
  /\ connection_state.state = "Connected"
  /\ properties' = [k \in PropertyKind |-> [properties[k] EXCEPT !.updated = NoInstant]]
  /\ EndFrame
  /\ UNCHANGED <<wvars, connection_state, worker, auto_refresh,
                 last_refresh, status_message, responses, now>>
  /\ UNCHANGED <<hist, lastQueryAt, executes>>

\* "Execute" of action a (the actions panel is shown when Connected); the
\* device's actions take no parameter, so action_inputs has no entry
UiExecute(a) ==
  /\ cpc = "ui"
  /\ connection_state.state = "Connected"
  /\ a \in 1..Len(connection_state.info.actions)
  /\ executes < MaxExecute
  /\ executes' = executes + 1
  /\ IF worker # NoWorker
     THEN HandleSend(worker, TriggerActionCmd(connection_state.info.actions[a].id, "None"))
     ELSE UNCHANGED <<cmdq, hist>>
  /\ EndFrame
  /\ UNCHANGED <<wpc, respq, handleAlive, portHeld, wcmd, widx, wdata, inflight>>
  /\ UNCHANGED <<connection_state, worker, properties, auto_refresh,
                 last_refresh, status_message, responses>>
  /\ UNCHANGED <<now, lastQueryAt>>

\* time passes, up to the instant limit
AdvanceTo(limit) ==
  /\ now + TickMs <= limit
  /\ now' = now + TickMs
  /\ UNCHANGED <<wvars, avars, hvars>>

Advance == AdvanceTo(MaxTime)

----------------------------------------------------------------------------
\* FreeMduApp::new: no handle, Disconnected, auto-refresh on
Init ==
  /\ wpc = [w \in Workers |-> "unborn"]
  /\ cmdq = [w \in Workers |-> <<>>]
  /\ respq = [w \in Workers |-> <<>>]
  /\ handleAlive = [w \in Workers |-> FALSE]
  /\ portHeld = [w \in Workers |-> FALSE]
  /\ wcmd = [w \in Workers |-> NoCmd]
  /\ widx = [w \in Workers |-> 0]
  /\ wdata = [w \in Workers |-> <<>>]
  /\ inflight = [w \in Workers |-> 0]
  /\ connection_state = Disconnected
  /\ worker = NoWorker
  /\ properties = EmptyStorage
  /\ auto_refresh = TRUE
  /\ last_refresh = 0
  /\ status_message = NoStatus
  /\ cpc = "process"
  /\ responses = <<>>
  /\ now = 0
  /\ hist = [w \in Workers |-> NoHist]
  /\ lastEval = NoEval
  /\ lastQueryAt = NoInstant
  /\ executes = 0

\* eframe::App::update, one step at a time
AppStep ==
  \/ DrainSome \/ ProcessAndRefresh
  \/ UiIdle \/ UiConnect \/ UiDisconnect \/ UiToggleAutoRefresh \/ UiRefreshAll
  \/ \E a \in 1..Len(DevActions) : UiExecute(a)

Next ==
  \/ AppStep
  \/ \E w \in Workers : WorkerStep(w)
  \/ Advance

Spec == Init /\ [][Next]_vars

\* update() keeps being called (the user keeps interacting with the window)
FairSpec == Spec /\ WF_vars(AppStep)

----------------------------------------------------------------------------
(* A session under way, for the scheduler: at SchedStart handle 1 is        *)
(* Connected and idle, every kind has been queried once (Io, Operation,    *)
(* Failure, General), each kind's answer arrived one interval ago or one   *)
(* tick less, and the scheduler last passed its throttle one window ago or *)
(* one tick less.  lastQueryAt is the latest instant a query can have been *)
(* sent at, last_refresh.                                                  *)

IntervalOf(k) ==
  LET i == CHOOSE j \in 1..Len(kinds) : kinds[j].kind = k IN kinds[i].interval

\* what Properties(k, ..) left in the storage when every query succeeded
DataOf(k) ==
  LET idx == SelectSeq([i \in 1..Len(DevProperties) |-> i],
                       LAMBDA i : DevProperties[i].kind = k)
  IN  [i \in 1..Len(idx) |-> PropertyDataOf(DevProperties[idx[i]])]

SchedHist ==
  [NoHist EXCEPT !.sent = 4, !.taken = 4, !.emits = 5, !.connected = 1,
                 !.lastResp = PropertiesResp("General", DataOf("General")),
                 !.cmdEmits = 1,
                 !.attempts = << [prop |-> 4, out |-> "ok"] >>,
                 !.lastObs = 4, !.firstQuery = "Io"]

SchedInit ==
  /\ wpc = [w \in Workers |-> IF w = 1 THEN "serving" ELSE "unborn"]
  /\ cmdq = [w \in Workers |-> <<>>]
  /\ respq = [w \in Workers |-> <<>>]
  /\ handleAlive = [w \in Workers |-> w = 1]
  /\ portHeld = [w \in Workers |-> w = 1]
  /\ wcmd = [w \in Workers |-> IF w = 1 THEN QueryPropertiesCmd("General") ELSE NoCmd]
  /\ widx = [w \in Workers |-> 0]
  /\ wdata = [w \in Workers |-> <<>>]
  /\ inflight = [w \in Workers |-> 0]
  /\ connection_state = Connected(DeviceInfoOf)
  /\ worker = 1
  /\ \E age \in [PropertyKind -> {0, TickMs}] :
       properties = [k \in PropertyKind |->
                       [data |-> DataOf(k),
                        updated |-> SchedStart - IntervalOf(k) + age[k]]]
  /\ auto_refresh = TRUE
  /\ last_refresh \in {SchedStart - ThrottleMs, SchedStart - ThrottleMs + TickMs}
  /\ status_message = Status("Connected", FALSE)
  /\ cpc = "process"
  /\ responses = <<>>
  /\ now = SchedStart
  /\ hist = [w \in Workers |-> IF w = 1 THEN SchedHist ELSE NoHist]
  /\ lastEval = NoEval
  /\ lastQueryAt = last_refresh
  /\ executes = 0

SchedNext ==
  \/ AppStep
  \/ \E w \in Workers : WorkerStep(w)
  \/ AdvanceTo(SchedStart + SchedSpan)

SchedSpec == SchedInit /\ [][SchedNext]_vars

----------------------------------------------------------------------------
(* One WorkerHandle under any caller: new, send of any WorkerCommand        *)
(* (Disconnect and unknown action ids included), try_recv, drop.  The      *)
(* FreeMduApp fields stay as FreeMduApp::new left them.                    *)

\* the values of WorkerCommand a caller can build
ClientCommands ==
  {QueryPropertiesCmd(k) : k \in PropertyKind}
    \cup {TriggerActionCmd(id, "None") : id \in {"reset", "bogus"}}
    \cup {DisconnectCmd}

\* WorkerHandle::new, once
ClientNew ==
  /\ Unborn = Workers
  /\ HandleEffects(NextHandle, 0)
  /\ UNCHANGED <<portHeld, widx, wdata, inflight>>
  /\ UNCHANGED <<avars, now, lastEval, lastQueryAt, executes>>

\* handle.send(cmd)
ClientSend(w, cmd) ==
  /\ handleAlive[w]
  /\ hist[w].sent < MaxSend
  /\ HandleSend(w, cmd)
  /\ UNCHANGED <<wpc, respq, handleAlive, portHeld, wcmd, widx, wdata, inflight>>
  /\ UNCHANGED <<avars, now, lastEval, lastQueryAt, executes>>

\* handle.try_recv() returning Some(..)
ClientTryRecv(w) ==
  /\ handleAlive[w]
  /\ TryRecv(w) # NoResp
  /\ respq[w] = <<>> => hist[w].synth < MaxSynth
  /\ respq' = [respq EXCEPT ![w] = IF @ # <<>> THEN Tail(@) ELSE @]
  /\ hist' = [hist EXCEPT ![w] = Observed(w)]
  /\ UNCHANGED <<wpc, cmdq, handleAlive, portHeld, wcmd, widx, wdata, inflight>>
  /\ UNCHANGED <<avars, now, lastEval, lastQueryAt, executes>>

\* drop(handle)
ClientDrop(w) ==
  /\ handleAlive[w]
  /\ HandleEffects(0, w)
  /\ UNCHANGED <<portHeld, widx, wdata, inflight>>
  /\ UNCHANGED <<avars, now, lastEval, lastQueryAt, executes>>

ClientStep ==
  \/ ClientNew
  \/ \E w \in Workers :
       \/ \E cmd \in ClientCommands : ClientSend(w, cmd)
       \/ ClientTryRecv(w)
       \/ ClientDrop(w)

ClientNext ==
  \/ ClientStep
  \/ \E w \in Workers : WorkerStep(w)

ClientSpec == Init /\ [][ClientNext]_vars

\* the worker thread keeps running: recv_timeout returns within 50 ms and
\* every device call is under a tokio timeout (5 s, 1 s, 2 s)
ClientFairSpec == ClientSpec /\ \A w \in Workers : WF_vars(WorkerStep(w))

----------------------------------------------------------------------------
(* Properties *)

\* the handle of w has been dropped
Dropped(w) == wpc[w] # "unborn" /\ ~handleAlive[w]

\* C1: commands reach run_worker in send order and are executed in that
\* order (the i-th queued command is the i-th after those already taken);
\* responses wait in the channel in the order of the commands that caused
\* them, every response later than the last one try_recv returned, and none
\* for a command that has not been sent and taken.
C1_FifoOrder ==
  \A w \in Workers :
    /\ \A i \in 1..Len(cmdq[w]) : cmdq[w][i].tag = hist[w].taken + i
    /\ \A i \in 1..Len(respq[w]) :
         /\ respq[w][i].tag <= hist[w].taken
         /\ respq[w][i].tag <= hist[w].sent
         /\ i > 1 => respq[w][i-1].tag < respq[w][i].tag
    /\ respq[w] # <<>> => hist[w].lastObs < Head(respq[w]).tag
    /\ hist[w].lastObs <= hist[w].sent

\* two commands of one handle have both been answered and both answers received
C1_Witness ==
  \E w \in Workers : hist[w].lastObs = 2 /\ hist[w].emits = 3

\* C2: at most one device call of a worker is in flight, and run_worker
\* takes a command only when none is.
C2_SingleFlight ==
  /\ [](\A w \in Workers : inflight[w] <= 1)
  /\ [][\A w \in Workers :
          hist'[w].taken = hist[w].taken + 1 => inflight[w] = 0]_vars

\* a device call is in flight while the next command waits in the channel
C2_Witness ==
  \E w \in Workers : inflight[w] = 1 /\ cmdq[w] # <<>>

\* C3: try_recv makes up a Disconnected at most once per handle.
C3_SynthesizedOnce ==
  \A w \in Workers : hist[w].synth <= 1

\* C4: a drain loop ends after finitely many try_recv calls: every call
\* that returns a response takes one the worker sent, so the loop collects
\* at most as many responses as the worker has sent.
C4_DrainTerminates ==
  worker # NoWorker => Len(responses) <= hist[worker].emits

\* the indices of the device's properties of kind k, in iteration order
KindIndices(k) ==
  SelectSeq([i \in 1..Len(DevProperties) |-> i],
            LAMBDA i : DevProperties[i].kind = k)

\* the calls among att that succeeded
Succeeded(att) == SelectSeq(att, LAMBDA a : a.out = "ok")

\* C5: while the queries of a QueryProperties(c) command are under way
\* nothing has been sent for it; once they are over exactly one response has
\* been sent for it, every property of kind c was attempted in iteration
\* order, and the response is Properties(c, list) with list naming exactly
\* the properties whose query succeeded, in that order.
C5_PropertiesBatch ==
  \A w \in Workers :
    wcmd[w].type = "QueryProperties" =>
      LET h   == hist[w]
          k   == wcmd[w].kind
          ok  == Succeeded(h.attempts)
      IN  IF wpc[w] = "query"
          THEN /\ h.cmdEmits = 0
               /\ Len(h.attempts) < Len(KindIndices(k))
          ELSE /\ h.cmdEmits = 1
               /\ [i \in 1..Len(h.attempts) |-> h.attempts[i].prop] = KindIndices(k)
               /\ h.lastResp =
                    PropertiesResp(k, [i \in 1..Len(ok) |->
                                         [name |-> DevProperties[ok[i].prop].name]])

\* an Io batch whose first query failed and whose second succeeded was answered
C5_Witness ==
  \E w \in Workers :
    /\ wpc[w] = "serving"
    /\ wcmd[w] = QueryPropertiesCmd("Io")
    /\ hist[w].attempts = << [prop |-> 1, out |-> "timeout"], [prop |-> 3, out |-> "ok"] >>
    /\ hist[w].lastResp = PropertiesResp("Io", << [name |-> "io2"] >>)

\* C6 as claimed: once a handle is dropped and its worker has ended, the
\* consumer has observed a Disconnected event of that connection.
C6_DropObservesDisconnected ==
  \A w \in Workers :
    (Dropped(w) /\ wpc[w] = "terminal") => hist[w].obsDisc

\* C6 as amended: dropping a handle leaves Disconnect as the last command in
\* the channel of a worker that is still connecting or serving, and after
\* the drop the consumer holds and observes nothing of that connection (the
\* buffered and the later responses are discarded).
C6_DropIsSilent ==
  /\ [](\A w \in Workers :
          Dropped(w) =>
            /\ worker # w
            /\ respq[w] = <<>>
            /\ wpc[w] \in {"start", "handshake", "serving", "query", "trigger"} =>
                 /\ cmdq[w] # <<>>
                 /\ cmdq[w][Len(cmdq[w])].msg = DisconnectCmd)
  /\ [][\A w \in Workers :
          Dropped(w) => hist'[w].obsDisc = hist[w].obsDisc]_vars

\* a handle was dropped while its worker executes a query; Disconnect waits
C6_Witness ==
  \E w \in Workers :
    /\ Dropped(w)
    /\ wpc[w] = "query"
    /\ cmdq[w][Len(cmdq[w])].msg = DisconnectCmd

\* C7: once the worker of the held handle has sent Error, the connection
\* state becomes Error (unless the user drops the handle first), and an
\* Error state ends only by connect() moving to Connecting.
C7_ErrorPersists ==
  /\ \A w \in Workers :
       (worker = w /\ hist[w].errors = 1)
         ~> (connection_state.state = "Error" \/ worker # w)
  /\ [][connection_state.state = "Error" =>
          connection_state'.state \in {"Error", "Connecting"}]_vars

\* C8: a worker sends Connected at most once, exactly once when it reaches
\* the command loop and never with an Error; the event carries the device's
\* software id, kind and actions, which is what the consumer shows while
\* Connected; and the first QueryProperties sent on a handle asks for Io.
C8_ConnectedThenIo ==
  \A w \in Workers :
    LET h == hist[w]
        info == [software_id |-> DevSoftwareId, kind |-> DevKind, actions |-> DevActions]
    IN  /\ h.connected <= 1
        /\ wpc[w] \in {"serving", "query", "trigger"} => h.connected = 1 /\ h.errors = 0
        /\ wpc[w] \in {"start", "handshake"} => h.connected = 0
        /\ (h.connected = 1 /\ h.emits = 1) => h.lastResp = [type |-> "Connected", info |-> info]
        /\ (worker = w /\ connection_state.state = "Connected") => connection_state.info = info
        /\ h.firstQuery \in {"None", "Io"}
        /\ h.firstQuery # "None" => h.connected = 1

\* the scheduler has sent its first query on a handle of a connected worker
C8_Witness ==
  \E w \in Workers :
    /\ hist[w].connected = 1
    /\ hist[w].firstQuery = "Io"
    /\ worker = w
    /\ connection_state = Connected(DeviceInfoOf)

\* the step is update() running process_worker_responses to its end and
\* then auto_refresh_properties
SchedulerRuns == cpc = "process" /\ cpc' = "ui"

\* the QueryProperties commands the step puts in the channel of handle w
QueriesSent(w) ==
  LET added == Len(cmdq'[w]) - Len(cmdq[w])
  IN  IF added <= 0 THEN <<>>
      ELSE SelectSeq(SubSeq(cmdq'[w], Len(cmdq[w]) + 1, Len(cmdq'[w])),
                     LAMBDA e : e.msg.type = "QueryProperties")

\* C9: a run of the scheduler sends at most one QueryProperties, and it
\* sends none unless the scheduler's previous QueryProperties is at least
\* 500 ms old: two runs in one 500 ms window send at most one command.
\* A run that sends restarts the window, and the window is restarted only
\* by a run that comes at least 500 ms after the previous restart.
C9_Throttle ==
  [][SchedulerRuns =>
       /\ last_refresh' # last_refresh =>
            now - last_refresh >= 500 /\ last_refresh' = now
       /\ \A w \in Workers :
         /\ Len(QueriesSent(w)) <= 1
         /\ QueriesSent(w) # <<>> =>
              /\ w = worker'
              /\ lastQueryAt = NoInstant \/ now - lastQueryAt >= 500
              /\ lastQueryAt' = now
              /\ last_refresh' = now]_vars

\* the scheduler has sent two queries since SchedStart, the second one a
\* full window after the session was looked at
C9_Witness ==
  /\ lastQueryAt = SchedStart + 500
  /\ hist[1].sent = SchedHist.sent + 2
  /\ lastEval.kind # "None"

\* C10: a run of the scheduler that is not stopped by auto-refresh being
\* off, by the state not being Connected or by the 500 ms throttle sends
\* exactly QueryProperties(c) for the first c in the order Io, Operation,
\* Failure, General that has no update time or whose update is at least
\* its interval old (500 ms, 1 s, 5 s, 30 s), and nothing if there is none.
C10_Priority ==
  [][SchedulerRuns =>
       LET Due(k, ms) == \/ properties'[k].updated = NoInstant
                         \/ now - properties'[k].updated >= ms
           first == IF Due("Io", 500) THEN "Io"
                    ELSE IF Due("Operation", 1000) THEN "Operation"
                    ELSE IF Due("Failure", 5000) THEN "Failure"
                    ELSE IF Due("General", 30000) THEN "General"
                    ELSE "None"
           unthrottled == /\ auto_refresh
                          /\ connection_state'.state = "Connected"
                          /\ now - last_refresh >= 500
       IN  (unthrottled /\ worker' # NoWorker) =>
             IF first = "None"
             THEN cmdq'[worker'] = cmdq[worker']
             ELSE /\ Len(cmdq'[worker']) = Len(cmdq[worker']) + 1
                  /\ cmdq'[worker'][Len(cmdq'[worker'])].msg = QueryPropertiesCmd(first)]_vars

\* the scheduler asked for General: no kind before it was due
C10_Witness ==
  /\ cpc = "ui"
  /\ lastEval = [ran |-> TRUE, kind |-> "General"]
  /\ cmdq[worker] # <<>>
  /\ cmdq[worker][Len(cmdq[worker])].msg = QueryPropertiesCmd("General")

\* the display name of the action with id `id`
ActionName(id) ==
  LET a == CHOOSE x \in {DevActions[j] : j \in 1..Len(DevActions)} : x.id = id
  IN  a.name

KnownAction(id) == \E j \in 1..Len(DevActions) : DevActions[j].id = id

\* C11: while the device call of a TriggerAction with a known id is under
\* way nothing has been sent for it; once it is over exactly one response
\* has been sent for it, after one device call: ActionResult with the
\* action's display name and (true, "Success") when the call succeeded,
\* (false, the device's reason) when it failed, (false, "Timeout") when the
\* 2 s timeout fired.
C11_ActionResult ==
  \A w \in Workers :
    (wcmd[w].type = "TriggerAction" /\ KnownAction(wcmd[w].id)) =>
      LET h == hist[w]
          name == ActionName(wcmd[w].id)
      IN  IF wpc[w] = "trigger"
          THEN h.cmdEmits = 0 /\ h.attempts = <<>>
          ELSE /\ h.cmdEmits = 1
               /\ Len(h.attempts) = 1
               /\ h.attempts[1].prop = 0
               /\ h.lastResp.type = "ActionResult"
               /\ h.lastResp.name = name
               /\ h.lastResp.success = (h.attempts[1].out = "ok")
               /\ h.attempts[1].out = "ok" => h.lastResp.message = "Success"
               /\ h.attempts[1].out = "timeout" => h.lastResp.message = "Timeout"
               /\ h.attempts[1].out = "err" => h.lastResp.message = "DeviceError"

\* the Reset action timed out and its result was sent
C11_Witness ==
  \E w \in Workers :
    /\ wpc[w] = "serving"
    /\ wcmd[w].type = "TriggerAction"
    /\ hist[w].lastResp = [type |-> "ActionResult", name |-> "Reset",
                           success |-> FALSE, message |-> "Timeout"]

\* C12: as long as the last command run_worker took is a QueryProperties
\* or a TriggerAction, whatever its device calls returned, the worker is in
\* its command loop (receiving, or inside that command), it has sent no
\* Error and its last response is not Disconnected; and when it is back at
\* recv_timeout with a command queued, it takes that command.
C12_FailuresKeepServing ==
  \A w \in Workers :
    wcmd[w].type \in {"QueryProperties", "TriggerAction"} =>
      /\ wpc[w] \in {"serving", "query", "trigger"}
      /\ portHeld[w]
      /\ hist[w].errors = 0
      /\ hist[w].lastResp.type \in {"Connected", "Properties", "ActionResult"}
      /\ (wpc[w] = "serving" /\ cmdq[w] # <<>>) =>
           ENABLED (WRecvQuery(w) \/ WRecvTrigger(w) \/ WRecvDisconnect(w))

\* an action timed out, and the worker is executing the query sent after it
C12_Witness ==
  \E w \in Workers :
    /\ wpc[w] = "query"
    /\ wcmd[w].type = "QueryProperties"
    /\ hist[w].lastResp.type = "ActionResult"
    /\ hist[w].lastResp.message = "Timeout"

\* C13: once run_worker has taken a Disconnect it has sent Disconnected
\* for it, as the last message in the response channel, it makes no device
\* call and it is leaving or has left (the port released and the command
\* channel gone once it has left); from then on it takes no command and
\* sends no response, whatever is queued behind the Disconnect.
C13_DisconnectIsTerminal ==
  /\ [](\A w \in Workers :
          wcmd[w].type = "Disconnect" =>
            /\ wpc[w] \in {"exiting", "terminal"}
            /\ inflight[w] = 0
            /\ hist[w].lastResp = DisconnectedResp
            /\ hist[w].cmdEmits = 1
            /\ respq[w] # <<>> => respq[w][Len(respq[w])].msg = DisconnectedResp
            /\ wpc[w] = "terminal" => ~portHeld[w] /\ cmdq[w] = <<>>)
  /\ [][\A w \in Workers :
          wcmd[w].type = "Disconnect" =>
            /\ wpc'[w] \in {"exiting", "terminal"}
            /\ hist'[w].taken <= hist[w].taken
            /\ hist'[w].emits <= hist[w].emits
            /\ Len(respq'[w]) <= Len(respq[w])
            /\ inflight'[w] = 0]_vars

\* a Disconnect sent through the handle was taken while two later commands
\* wait behind it, and the handle is still held
C13_Witness ==
  \E w \in Workers :
    /\ wcmd[w].type = "Disconnect"
    /\ wpc[w] = "exiting"
    /\ handleAlive[w]
    /\ Len(cmdq[w]) = 2
    /\ cmdq[w][1].msg.type = "QueryProperties"

\* the Properties events for kind k among the collected responses
PropertiesEvents(k) ==
  SelectSeq(responses, LAMBDA r : r.type = "Properties" /\ r.kind = k)

\* the step applies the collected responses, and what it leaves in the
\* storage of kind k is the list of the last Properties event for k, dated
\* now, or what was there when there is no such event
AppliesProperties(k) ==
  /\ cpc = "process" /\ cpc' = "ui"
  /\ LET ev == PropertiesEvents(k)
     IN  IF ev = <<>> THEN properties'[k] = properties[k]
         ELSE properties'[k] = [data |-> ev[Len(ev)].data, updated |-> now]

\* C14 as claimed: the list or the update time of a kind changes only in a
\* step that applies a Properties event for that kind.
C14_OnlyPropertiesEvents ==
  [][\A k \in PropertyKind :
       properties'[k] # properties[k] =>
         AppliesProperties(k) /\ PropertiesEvents(k) # <<>>]_vars

\* C14 as amended: applying the collected responses replaces the list of
\* exactly the kinds that have a Properties event among them, by that
\* event's list, dated now; the only other changes of the storage are the
\* user's disconnect, which empties all four lists and update times, and
\* "Refresh All", which forgets the four update times and keeps the lists.
C14_CacheFrame ==
  [][properties' # properties =>
       \/ \A k \in PropertyKind : AppliesProperties(k)
       \/ /\ cpc = "ui"
          /\ connection_state'.state = "Disconnected" /\ worker' = NoWorker
          /\ \A k \in PropertyKind :
               properties'[k] = [data |-> <<>>, updated |-> NoInstant]
       \/ /\ cpc = "ui"
          /\ connection_state.state = "Connected"
          /\ connection_state' = connection_state
          /\ \A k \in PropertyKind :
               properties'[k] = [data |-> properties[k].data, updated |-> NoInstant]]_vars

\* a new Io list was stored after SchedStart, the other lists are the old
\* ones, and "Refresh All" then forgot the update times
C14_Witness ==
  /\ properties["Io"].data = << [name |-> "io2"] >>
  /\ properties["General"].data = << [name |-> "gen1"] >>
  /\ \A k \in PropertyKind : properties[k].updated = NoInstant

\* the collected responses that carry a connection state
StateEvents ==
  SelectSeq(responses, LAMBDA r : r.type \in {"Connected", "Error", "Disconnected"})

\* the connection state a worker event stands for
StateOf(r) ==
  CASE r.type = "Connected"    -> [state |-> "Connected", info |-> r.info]
    [] r.type = "Error"        -> [state |-> "Error", msg |-> r.msg]
    [] r.type = "Disconnected" -> [state |-> "Disconnected"]

\* the step applies the collected responses and leaves the state of the
\* last Connected, Error or Disconnected among them
ByWorkerEvent ==
  /\ cpc = "process"
  /\ StateEvents # <<>>
  /\ connection_state' = StateOf(StateEvents[Len(StateEvents)])

\* the step is the user's disconnect
ByUserDisconnect ==
  /\ cpc = "ui"
  /\ connection_state.state \in {"Connected", "Connecting"}
  /\ connection_state' = [state |-> "Disconnected"]
  /\ worker' = NoWorker

\* the step is the user's connect
ByUserConnect ==
  /\ cpc = "ui"
  /\ connection_state.state \in {"Disconnected", "Error"}
  /\ connection_state' = [state |-> "Connecting"]
  /\ worker' \in Workers /\ worker' # worker
  /\ wpc[worker'] = "unborn" /\ wpc'[worker'] = "start"

\* C15 as claimed: the connection state changes only by applying a worker
\* event or by the user's disconnect.
C15_OnlyWorkerEvents ==
  [][connection_state' # connection_state =>
       ByWorkerEvent \/ ByUserDisconnect]_vars

\* C15 as amended: the connection state changes only by applying a worker
\* event (to that event's state), by the user's disconnect (to
\* Disconnected) or by the user's connect (to Connecting, with a new
\* handle); the consumer never moves itself to Connected or Error.
C15_StateTransitions ==
  [][connection_state' # connection_state =>
       ByWorkerEvent \/ ByUserDisconnect \/ ByUserConnect]_vars

\* the first worker sent Error; the user connected again and the second
\* handle's Connected was applied
C15_Witness ==
  /\ worker = 2
  /\ connection_state.state = "Connected"
  /\ wpc[1] = "exiting"
  /\ hist[1].errors = 1

\* C16: a send through a handle whose worker thread has ended returns
\* like any other send and leaves nothing behind: the command channel stays
\* empty, nothing is added to the response channel, try_recv answers what
\* it answered before, no worker moves, and the ended worker never takes a
\* command or sends a response again.
C16_SendAfterTermination ==
  /\ [](\A w \in Workers : Terminated(w) => cmdq[w] = <<>> /\ inflight[w] = 0)
  /\ [][\A w \in Workers :
          (Terminated(w) /\ hist'[w].sent = hist[w].sent + 1) =>
            /\ handleAlive[w] /\ handleAlive'[w]
            /\ hist'[w].lost = hist[w].lost + 1
            /\ cmdq' = cmdq
            /\ respq' = respq
            /\ TryRecv(w)' = TryRecv(w)
            /\ wpc' = wpc
            /\ hist'[w].emits = hist[w].emits]_vars
  /\ [][\A w \in Workers :
          Terminated(w) =>
            /\ Terminated(w)'
            /\ hist'[w].taken <= hist[w].taken
            /\ hist'[w].emits <= hist[w].emits
            /\ Len(respq'[w]) <= Len(respq[w])]_vars

\* two commands were sent after the worker had ended with a connect error
C16_Witness ==
  \E w \in Workers :
    /\ Terminated(w)
    /\ handleAlive[w]
    /\ hist[w].lost = 2
    /\ hist[w].errors = 1

\* the commands the step adds to the command channel of handle w
CommandsSent(w) ==
  IF Len(cmdq'[w]) > Len(cmdq[w])
  THEN SubSeq(cmdq'[w], Len(cmdq[w]) + 1, Len(cmdq'[w]))
  ELSE <<>>

C18_ConnectingPhase ==
  /\ [](\A w \in Workers :
          LET h == hist[w]
          IN  /\ wpc[w] \in {"start", "handshake"} =>
                   /\ h.emits = 0 /\ h.taken = 0 /\ inflight[w] = 0
                   /\ portHeld[w] = (wpc[w] = "handshake")
              /\ h.errors >= 1 =>
                   /\ h.errors = 1 /\ h.emits = 1 /\ h.connected = 0
                   /\ h.lastResp.type = "Error"
                   /\ h.lastResp.msg \in {"Failed to create runtime", "Failed to open port",
                                          "Failed to connect", "Connection timeout"}
                   /\ h.taken = 0 /\ h.attempts = <<>> /\ inflight[w] = 0
                   /\ wpc[w] \in {"exiting", "terminal"}
                   /\ wpc[w] = "terminal" => ~portHeld[w])
  /\ [][\A w \in Workers :
          /\ hist'[w].connected > hist[w].connected =>
               /\ wpc[w] = "handshake" /\ portHeld[w]
               /\ wpc'[w] = "serving"
               /\ hist[w].emits = 0
          /\ hist'[w].errors > hist[w].errors =>
               /\ wpc[w] \in {"start", "handshake"}
               /\ wpc'[w] = "exiting"]_vars

\* the handshake timed out; the two commands sent while the worker was
\* connecting were never taken, and the thread has ended
C18_Witness ==
  \E w \in Workers :
    /\ Terminated(w)
    /\ handleAlive[w]
    /\ hist[w].lastResp = ErrorResp("Connection timeout")
    /\ hist[w].sent = 2 /\ hist[w].lost = 0 /\ hist[w].taken = 0

\* C19: the step in which run_worker takes a TriggerAction whose id names
\* no action sends nothing, starts no device call and stays at
\* recv_timeout; while that command is the last one taken nothing has been
\* sent or tried for it, the worker serves with the port held and no Error
\* sent, and it takes the next command queued.
C19_UnknownActionIgnored ==
  /\ [](\A w \in Workers :
          (wcmd[w].type = "TriggerAction" /\ ~KnownAction(wcmd[w].id)) =>
            /\ wpc[w] = "serving"
            /\ portHeld[w]
            /\ inflight[w] = 0
            /\ hist[w].cmdEmits = 0 /\ hist[w].attempts = <<>>
            /\ hist[w].errors = 0
            /\ cmdq[w] # <<>> =>
                 ENABLED (WRecvQuery(w) \/ WRecvTrigger(w) \/ WRecvDisconnect(w)))
  /\ [][\A w \in Workers :
          (/\ hist'[w].taken = hist[w].taken + 1
           /\ Head(cmdq[w]).msg.type = "TriggerAction"
           /\ ~KnownAction(Head(cmdq[w]).msg.id)) =>
            /\ respq' = respq
            /\ hist'[w].emits = hist[w].emits
            /\ inflight' = inflight
            /\ wpc'[w] = "serving"
            /\ wcmd'[w] = Head(cmdq[w]).msg]_vars

\* the first command taken got no response (an unknown action id), and the
\* worker is executing the query sent after it
C19_Witness ==
  \E w \in Workers :
    /\ wpc[w] = "query"
    /\ hist[w].taken = 2
    /\ hist[w].emits = 1
    /\ hist[w].lastResp.type = "Connected"

\* C20: a worker whose handle has been dropped, in whatever phase and
\* with whatever commands still queued, eventually has ended with the port
\* released, and stays so.
C20_WorkerEndsAfterDrop ==
  /\ \A w \in Workers :
       Dropped(w) ~> (wpc[w] = "terminal" /\ ~portHeld[w])
  /\ [](\A w \in Workers : wpc[w] = "terminal" => ~portHeld[w])
  /\ [][\A w \in Workers : wpc[w] = "terminal" => wpc'[w] = "terminal"]_vars

\* the handle was dropped while the worker executes a query with two more
\* commands and the drop's Disconnect queued
C20_Witness ==
  \E w \in Workers :
    /\ Dropped(w)
    /\ wpc[w] = "query"
    /\ portHeld[w]
    /\ Len(cmdq[w]) = 3
    /\ cmdq[w][3].msg = DisconnectCmd

\* a step of the widgets that changes an update time and keeps the handle
ResetsUpdateTimes ==
  /\ cpc = "ui"
  /\ worker' = worker
  /\ \E k \in PropertyKind : properties'[k].updated # properties[k].updated

\* C21: "Refresh All" forgets the update time of all four kinds, keeps the
\* four lists, the connection state, the throttle window and both channels
\* of every handle (nothing is sent by the click itself); and a run of the
\* scheduler that passes its gates while no kind has an update time sends
\* exactly one command, QueryProperties(Io).
C21_RefreshAll ==
  /\ [][ResetsUpdateTimes =>
          /\ \A k \in PropertyKind :
               properties'[k] = [data |-> properties[k].data, updated |-> NoInstant]
          /\ connection_state' = connection_state
          /\ connection_state.state = "Connected"
          /\ last_refresh' = last_refresh /\ auto_refresh' = auto_refresh
          /\ cmdq' = cmdq /\ respq' = respq
          /\ \A w \in Workers : hist'[w].sent = hist[w].sent]_vars
  /\ [][(/\ SchedulerRuns
         /\ \A k \in PropertyKind : properties'[k].updated = NoInstant
         /\ auto_refresh
         /\ connection_state'.state = "Connected"
         /\ now - last_refresh >= 500) =>
          /\ worker' # NoWorker
          /\ cmdq'[worker'] =
               Append(cmdq[worker'],
                      [msg |-> QueryPropertiesCmd("Io"), tag |-> hist[worker'].sent + 1])
          /\ \A w \in Workers \ {worker'} : cmdq'[w] = cmdq[w]]_vars

\* after "Refresh All" the scheduler has asked for Io; the lists are still
\* the ones stored before and no kind has an update time yet
C21_Witness ==
  /\ cpc = "ui"
  /\ lastEval = [ran |-> TRUE, kind |-> "Io"]
  /\ \A k \in PropertyKind : properties[k].updated = NoInstant
  /\ properties["Io"].data # <<>>
  /\ properties["General"].data # <<>>

\* the number of entries of sequence q that satisfy Test
Count(q, Test(_)) == Len(SelectSeq(q, Test))

\* QueryProperties(k) commands sent through the held handle and not yet
\* answered by a Properties(k) event applied to the storage: queued, being
\* executed, answered in the channel, or collected by the drain loop
Outstanding(k) ==
  IF worker = NoWorker THEN 0
  ELSE Count(cmdq[worker], LAMBDA e : e.msg = QueryPropertiesCmd(k))
       + (IF wpc[worker] = "query" /\ wcmd[worker] = QueryPropertiesCmd(k) THEN 1 ELSE 0)
       + Count(respq[worker], LAMBDA e : e.msg.type = "Properties" /\ e.msg.kind = k)
       + Count(responses, LAMBDA r : r.type = "Properties" /\ r.kind = k)

\* C22: at any time at most one QueryProperties per kind is outstanding.
C22_NoFlooding ==
  \A k \in PropertyKind : Outstanding(k) <= 1

----------------------------------------------------------------------------
(* A session of unbounded length.  The program reads an Instant only      *)
(* through duration_since, and compares the result with one threshold per      *)
(* Instant, so time passing is modelled by moving every stored Instant     *)
(* back by one tick, no further than its threshold                        *)

\* an Instant one tick older, all that duration_since(t) >= span can tell
Back(t, span) ==
  IF t = NoInstant THEN NoInstant
  ELSE IF t - TickMs >= now - span THEN t - TickMs ELSE now - span

\* nothing is in either channel and the worker waits in recv_timeout
IdleChannel(w) ==
  /\ wpc[w] = "serving"
  /\ cmdq[w] = <<>> /\ respq[w] = <<>> /\ responses = <<>>

\* One tick passes, in a session whose worker answers within the tick and
\* whose frames take the answer within the tick.  The history is counted
\* from the last tick.
Elapse ==
  /\ worker # NoWorker
  /\ IdleChannel(worker)
  /\ properties' = [k \in PropertyKind |->
                      [properties[k] EXCEPT !.updated = Back(@, IntervalOf(k))]]
  /\ last_refresh' = Back(last_refresh, ThrottleMs)
  /\ lastQueryAt' = Back(lastQueryAt, ThrottleMs)
  /\ hist' = [hist EXCEPT ![worker] =
                [@ EXCEPT !.sent = 0, !.taken = 0, !.emits = 1, !.lastObs = 0]]
  /\ UNCHANGED <<wvars, connection_state, worker, auto_refresh, status_message,
                 cpc, responses, now, lastEval, executes>>

\* the frame in which process_worker_responses has applied Connected
SteadyInit ==
  /\ wpc = [w \in Workers |-> IF w = 1 THEN "serving" ELSE "unborn"]
  /\ cmdq = [w \in Workers |-> <<>>]
  /\ respq = [w \in Workers |-> <<>>]
  /\ handleAlive = [w \in Workers |-> w = 1]
  /\ portHeld = [w \in Workers |-> w = 1]
  /\ wcmd = [w \in Workers |-> NoCmd]
  /\ widx = [w \in Workers |-> 0]
  /\ wdata = [w \in Workers |-> <<>>]
  /\ inflight = [w \in Workers |-> 0]
  /\ connection_state = Connected(DeviceInfoOf)
  /\ worker = 1
  /\ properties = EmptyStorage
  /\ auto_refresh = TRUE
  /\ last_refresh \in {SchedStart - ThrottleMs, SchedStart - ThrottleMs + TickMs}
  /\ status_message = Status("Connected", FALSE)
  /\ cpc = "ui"
  /\ responses = <<>>
  /\ now = SchedStart
  /\ hist = [w \in Workers |->
               IF w = 1
               THEN [NoHist EXCEPT !.emits = 1, !.connected = 1, !.cmdEmits = 1,
                                   !.lastResp = ConnectedResp(DeviceInfoOf),
                                   !.lastObs = 0]
               ELSE NoHist]
  /\ lastEval = NoEval
  /\ lastQueryAt = NoInstant
  /\ executes = 0

\* update() with no click: the session stays connected
Frame == DrainSome \/ ProcessAndRefresh \/ UiIdle

\* the worker serving queries
Serve == \E w \in Workers : WRecvQuery(w) \/ \E o \in Outcomes : WQueryDone(w, o)

SteadyNext == Frame \/ Serve \/ Elapse

SteadySpec == SteadyInit /\ [][SteadyNext]_vars

\* eframe repaints every 100 ms, the worker thread runs, time passes
SteadyFairSpec ==
  SteadySpec /\ WF_vars(Frame) /\ WF_vars(Serve) /\ WF_vars(Elapse)

\* C23: while the session stays connected with auto-refresh on and frames
\* keep coming, every category eventually gets a last-updated timestamp.
C23_NoStarvation ==
  \A k \in PropertyKind : <>(properties[k].updated # NoInstant)

\* C24: when connect has spawned a new worker, every worker of an earlier
\* handle has ended and has released the port.
C24_OneWorkerAlive ==
  \A w \in Workers :
    wpc[w] = "start" =>
      \A v \in Workers \ {w} : wpc[v] \in {"unborn", "terminal"} /\ ~portHeld[v]

\* C25: the responses a worker sends are either one Error, or one
\* Connected, then Properties and ActionResult responses, then at most one
\* Disconnected: the first response is Connected or Error, every later one
\* is Properties, ActionResult or Disconnected, and nothing is sent after
\* an Error or a Disconnected.
C25_StreamShape ==
  /\ [](\A w \in Workers :
          LET h == hist[w]
          IN  /\ h.connected <= 1
              /\ h.errors >= 1 => h.emits = 1 /\ h.connected = 0
              /\ h.emits >= 1 /\ h.errors = 0 => h.connected = 1
              /\ h.emits = 0 => h.lastResp = NoResp)
  /\ [][\A w \in Workers :
          hist'[w].emits > hist[w].emits =>
            /\ hist'[w].emits = hist[w].emits + 1
            /\ hist[w].lastResp.type \notin {"Error", "Disconnected"}
            /\ IF hist[w].emits = 0
               THEN hist'[w].lastResp.type \in {"Connected", "Error"}
               ELSE hist'[w].lastResp.type \in
                      {"Properties", "ActionResult", "Disconnected"}]_vars

\* a worker has sent Connected, at least two Properties or ActionResult
\* responses, and then Disconnected for a Disconnect taken from a held handle
C25_Witness ==
  \E w \in Workers :
    /\ handleAlive[w]
    /\ hist[w].connected = 1
    /\ hist[w].emits >= 4
    /\ hist[w].lastResp = DisconnectedResp
    /\ wcmd[w].type = "Disconnect"

\* C26: the connection state is Disconnected exactly when the application
\* holds no handle; in Connecting and Connected it holds one, the only
\* handle alive, and in Connected the worker of that handle is the one that
\* sent the Connected response.  A step taken while Connected sends
\* commands on that handle only.
C26_ViewModel ==
  /\ []( /\ (connection_state = Disconnected) <=> (worker = NoWorker)
         /\ connection_state.state \in {"Connecting", "Connected"} =>
              worker # NoWorker
         /\ \A w \in Workers : handleAlive[w] <=> (w = worker)
         /\ connection_state.state = "Connected" =>
              /\ hist[worker].connected = 1
              /\ connection_state.info = DeviceInfoOf )
  /\ [][\A w \in Workers :
          connection_state.state = "Connected" /\ hist'[w].sent > hist[w].sent
            => w = worker]_vars

\* after a disconnect and a reconnect the second connection is Connected
\* and a query has been sent on its handle, while the command channel of
\* the first connection is gone
C26_Witness ==
  /\ worker = 2
  /\ connection_state.state = "Connected"
  /\ hist[2].sent >= 1
  /\ ~handleAlive[1]

====
